---------------------------- MODULE Spec2Model ----------------------------
(***************************************************************************)
(* Model of the duck-chess board widget: the click-driven animation        *)
(* controller of ChessBoard.svelte, its asynchronous sprite loading and    *)
(* the sprite-sheet loaders of lib/utils/sprites.ts that feed it.          *)
(*                                                                         *)
(* A frame (a PNG data URL in the program) is modelled by the rectangle    *)
(* of the sprite sheet it was cropped from.  JavaScript's null/undefined   *)
(* are modelled by sentinels of the same shape as the values they replace. *)
(***************************************************************************)
EXTENDS Integers, Sequences, FiniteSets, TLC

VARIABLES
    size,               \* prop `size` (number of rendered rows / columns)
    playerColor,        \* prop `playerColor`
    phase,              \* component life cycle: unmounted, mounted, destroyed
    boardState,         \* logical 8x8 placement, empty before mount
    pieceSprites,       \* static sprite table, null while not loaded
    animationFrames,    \* animation frame table, null while not loaded
    loading,            \* loading flag
    spritesPromise,     \* promise of loadDefaultChessPieces()
    framesPromise,      \* promise of loadPieceAnimationFrames()
    selectedPiece,      \* selected cell or NoCell
    currentFrame,       \* animation frame index
    animationInterval,  \* handle kept by the component, NoTimer when null
    timers,             \* the browser's set of active repeating timers
    nextTimer,          \* next handle setInterval hands out
    lastOp,             \* history: the last operation and the selection before it
    ticks,              \* history: timer ticks since the click that selected the
                        \* cell, -1 when nothing is selected or another click came
    panel,              \* the state of one SpritePanel component
    call                \* the last call of a sprite utility: arguments and result

boardVars == <<size, playerColor, phase, boardState, pieceSprites, animationFrames,
               loading, spritesPromise, framesPromise, selectedPiece, currentFrame,
               animationInterval, timers, nextTimer, lastOp, ticks>>

vars == <<boardVars, panel, call>>

-----------------------------------------------------------------------------
(* Bounds of the model *)

MaxFrame == 6

MaxTimers == 3

(* Largest grid splitSpriteSheet is asked for *)
MaxColumns == 3

MaxRows == 3

(* Longest list of pieces extractChessPieces is given *)
MaxPieces == 3

(* Values of the prop `size` a page may pass: the logical board is 8x8,    *)
(* a larger grid renders squares outside it                               *)
Sizes == {8, 9}

(* The squares the user clicks: the back rows, the pawn rows, an empty    *)
(* row and the last rendered row, in the king column and the last column  *)
ClickRows == {0, 1, 4, 6, 7, size - 1}

ClickCols == {4, size - 1}

-----------------------------------------------------------------------------
(* Types of lib/utils/sprites.ts *)

ChessColorType == {"white", "black", "green", "blue"}

ChessPieceType == {"king", "queen", "bishop", "knight", "rook", "pawn"}

null == [k \in {} |-> k]

NoCell == [row |-> -1, col |-> -1]

NoPiece == [color |-> "none", type |-> "none"]

NoFrame == [sx |-> -1, sy |-> -1, sw |-> 0, sh |-> 0]

NoTimer == 0

CHESS_SPRITE_SIZE == 16

Pos(column, row) == [column |-> column, row |-> row]

DEFAULT_CHESS_PIECES_CONFIG ==
    [blue  |-> [pawn |-> Pos(0, 0), rook |-> Pos(1, 1), knight |-> Pos(1, 2),
                bishop |-> Pos(2, 3), queen |-> Pos(1, 4), king |-> Pos(2, 5)],
     green |-> [pawn |-> Pos(5, 0), rook |-> Pos(6, 1), knight |-> Pos(6, 2),
                bishop |-> Pos(7, 3), queen |-> Pos(6, 4), king |-> Pos(7, 5)],
     white |-> [pawn |-> Pos(0, 6), rook |-> Pos(1, 7), knight |-> Pos(1, 8),
                bishop |-> Pos(2, 9), queen |-> Pos(1, 10), king |-> Pos(2, 11)],
     black |-> [pawn |-> Pos(5, 6), rook |-> Pos(6, 7), knight |-> Pos(6, 8),
                bishop |-> Pos(7, 9), queen |-> Pos(6, 10), king |-> Pos(7, 11)]]

DEFAULT_ANIMATION_COLUMNS ==
    [white |-> [startColumn |-> 1, endColumn |-> 4],
     blue  |-> [startColumn |-> 1, endColumn |-> 4],
     green |-> [startColumn |-> 6, endColumn |-> 9],
     black |-> [startColumn |-> 6, endColumn |-> 9]]

(* ctx.drawImage(img, column*w, row*h, w, h, ...) followed by toDataURL *)
drawImage(column, row, frameWidth, frameHeight) ==
    [sx |-> column * frameWidth, sy |-> row * frameHeight,
     sw |-> frameWidth, sh |-> frameHeight]

(* A thrown error / rejected promise, and a returned value *)
Thrown == [ok |-> FALSE, value |-> null]

Returned(v) == [ok |-> TRUE, value |-> v]

(* extractColorSet reads all six piece types of the color configuration;  *)
(* reading .column of a missing position throws                           *)
extractColorSet(colorConfig, frameWidth, frameHeight) ==
    [t \in ChessPieceType |->
        drawImage(colorConfig[t].column, colorConfig[t].row, frameWidth, frameHeight)]

ColorSetThrows(config, color) ==
    \/ color \notin DOMAIN config
    \/ ChessPieceType \ DOMAIN config[color] # {}

loadChessPiecesWithConfig(config, frameWidth, frameHeight) ==
    IF \/ ColorSetThrows(config, "white")
       \/ ColorSetThrows(config, "black")
       \/ "green" \in DOMAIN config /\ ColorSetThrows(config, "green")
       \/ "blue" \in DOMAIN config /\ ColorSetThrows(config, "blue")
    THEN Thrown
    ELSE Returned(
        [color \in ChessColorType |->
            IF color \in DOMAIN config
            THEN extractColorSet(config[color], frameWidth, frameHeight)
            ELSE null])

loadDefaultChessPieces(config) ==
    loadChessPiecesWithConfig(config, CHESS_SPRITE_SIZE, CHESS_SPRITE_SIZE)

extractFramesForPiece(row, startCol, endCol) ==
    [i \in 1..(endCol - startCol + 1) |->
        drawImage(startCol + i - 1, row, CHESS_SPRITE_SIZE, CHESS_SPRITE_SIZE)]

loadPieceAnimationFrames(config, animConfig) ==
    Returned(
        [color \in ChessColorType |->
            IF color \in DOMAIN config
            THEN [t \in DOMAIN config[color] |->
                    extractFramesForPiece(config[color][t].row,
                                          animConfig[color].startColumn,
                                          animConfig[color].endColumn)]
            ELSE null])

-----------------------------------------------------------------------------
(* ChessBoard.svelte *)

backRow == <<"rook", "knight", "bishop", "queen", "king", "bishop", "knight", "rook">>

Piece(color, type) == [color |-> color, type |-> type]

getInitialBoard ==
    [cell \in (0..7) \X (0..7) |->
        CASE cell[1] = 7 -> Piece("white", backRow[cell[2] + 1])
          [] cell[1] = 6 -> Piece("white", "pawn")
          [] cell[1] = 0 -> Piece("black", backRow[cell[2] + 1])
          [] cell[1] = 1 -> Piece("black", "pawn")
          [] OTHER -> NoPiece]

(* boardState[r]?.[c] *)
BoardAt(r, c) ==
    IF <<r, c>> \in DOMAIN boardState THEN boardState[<<r, c>>] ELSE NoPiece

Cell(r, c) == [row |-> r, col |-> c]

(* The animation state the three controller functions read and write *)
Controller ==
    [selectedPiece |-> selectedPiece, currentFrame |-> currentFrame,
     animationInterval |-> animationInterval, timers |-> timers,
     nextTimer |-> nextTimer]

(* stopAnimation that forgets clearInterval *)
stopAnimation_NoClear(st) ==
    [st EXCEPT !.animationInterval = NoTimer,
               !.selectedPiece = NoCell,
               !.currentFrame = 0]

(* stopAnimation that forgets to reset the frame index *)
stopAnimation_KeepFrame(st) ==
    [st EXCEPT !.timers = IF st.animationInterval # NoTimer
                          THEN st.timers \ {st.animationInterval}
                          ELSE st.timers,
               !.animationInterval = NoTimer,
               !.selectedPiece = NoCell]

stopAnimation(st) ==
    [st EXCEPT !.timers = IF st.animationInterval # NoTimer
                          THEN st.timers \ {st.animationInterval}
                          ELSE st.timers,
               !.animationInterval = NoTimer,
               !.selectedPiece = NoCell,
               !.currentFrame = 0]

(* startAnimation that does not stop the running animation first *)
startAnimation_NoStop(st, r, c) ==
    IF BoardAt(r, c) = NoPiece
    THEN st
    ELSE [st EXCEPT !.selectedPiece = Cell(r, c),
                    !.currentFrame = 0,
                    !.animationInterval = st.nextTimer,
                    !.timers = st.timers \cup {st.nextTimer},
                    !.nextTimer = st.nextTimer + 1]

(* startAnimation that selects the cell but never calls setInterval *)
startAnimation_NoInterval(st, r, c) ==
    LET s1 == stopAnimation(st)
    IN  IF BoardAt(r, c) = NoPiece
        THEN s1
        ELSE [s1 EXCEPT !.selectedPiece = Cell(r, c),
                        !.currentFrame = 0]

startAnimation(st, r, c) ==
    LET s1 == stopAnimation(st)
    IN  IF BoardAt(r, c) = NoPiece
        THEN s1
        ELSE [s1 EXCEPT !.selectedPiece = Cell(r, c),
                        !.currentFrame = 0,
                        !.animationInterval = s1.nextTimer,
                        !.timers = s1.timers \cup {s1.nextTimer},
                        !.nextTimer = s1.nextTimer + 1]

(* handleSquareClick that restarts instead of toggling off *)
squareClick_NoToggle(st, r, c) ==
    LET piece == BoardAt(r, c)
    IN  IF piece = NoPiece THEN stopAnimation(st)
        ELSE IF piece.color # playerColor THEN st
        ELSE startAnimation(st, r, c)

(* handleSquareClick without the player-color check *)
squareClick_NoColorCheck(st, r, c) ==
    LET piece == BoardAt(r, c)
    IN  IF piece = NoPiece THEN stopAnimation(st)
        ELSE IF st.selectedPiece # NoCell /\ st.selectedPiece.row = r
                /\ st.selectedPiece.col = c
        THEN stopAnimation(st)
        ELSE startAnimation(st, r, c)

(* handleSquareClick that ignores clicks on empty squares *)
squareClick_EmptyIgnored(st, r, c) ==
    LET piece == BoardAt(r, c)
    IN  IF piece = NoPiece THEN st
        ELSE IF piece.color # playerColor THEN st
        ELSE IF st.selectedPiece # NoCell /\ st.selectedPiece.row = r
                /\ st.selectedPiece.col = c
        THEN stopAnimation(st)
        ELSE startAnimation(st, r, c)

squareClick(st, r, c) ==
    LET piece == BoardAt(r, c)
    IN  IF piece = NoPiece THEN stopAnimation(st)
        ELSE IF piece.color # playerColor THEN st
        ELSE IF st.selectedPiece # NoCell /\ st.selectedPiece.row = r
                /\ st.selectedPiece.col = c
        THEN stopAnimation(st)
        ELSE startAnimation(st, r, c)

SetController(st) ==
    /\ selectedPiece' = st.selectedPiece
    /\ currentFrame' = st.currentFrame
    /\ animationInterval' = st.animationInterval
    /\ timers' = st.timers
    /\ nextTimer' = st.nextTimer

Op(name, r, c) == [op |-> name, row |-> r, col |-> c, from |-> selectedPiece]

handleSquareClick(r, c) ==
    /\ phase = "mounted"
    /\ LET st == squareClick(Controller, r, c)
       IN  /\ st.nextTimer <= MaxTimers + 1
           /\ SetController(st)
           /\ ticks' = IF st.selectedPiece = Cell(r, c) THEN 0 ELSE -1
    /\ lastOp' = Op("click", r, c)
    /\ UNCHANGED <<panel, call>>
    /\ UNCHANGED <<size, playerColor, phase, boardState, pieceSprites,
                   animationFrames, loading, spritesPromise, framesPromise>>

(* The callback of setInterval: currentFrame++ *)
Tick ==
    /\ \E t \in timers : currentFrame' = currentFrame + 1
    /\ currentFrame < MaxFrame
    /\ lastOp' = Op("tick", -1, -1)
    /\ UNCHANGED <<panel, call>>
    /\ ticks' = IF ticks >= 0 THEN ticks + 1 ELSE -1
    /\ UNCHANGED <<size, playerColor, phase, boardState, pieceSprites,
                   animationFrames, loading, spritesPromise, framesPromise,
                   selectedPiece, animationInterval, timers, nextTimer>>

Pending == [state |-> "pending", value |-> null]

NotStarted == [state |-> "none", value |-> null]

(* The promise an asynchronous loader returns settles with the loader's   *)
(* result, or rejects when the image cannot be loaded or no 2D context is *)
(* available                                                              *)
Settled(imageOk, result) ==
    IF imageOk /\ result.ok
    THEN [state |-> "fulfilled", value |-> result.value]
    ELSE [state |-> "rejected", value |-> null]

(* Promise.allSettled semantics: fulfilled once both have settled *)
PromiseAll_Settled(p, q) ==
    IF p.state \in {"fulfilled", "rejected"} /\ q.state \in {"fulfilled", "rejected"}
    THEN "fulfilled"
    ELSE "pending"

(* Promise.all([...]) *)
PromiseAll(p, q) ==
    IF p.state = "rejected" \/ q.state = "rejected" THEN "rejected"
    ELSE IF p.state = "fulfilled" /\ q.state = "fulfilled" THEN "fulfilled"
    ELSE "pending"

(* onMount up to the await *)
Mount ==
    /\ phase = "unmounted"
    /\ phase' = "mounted"
    /\ boardState' = getInitialBoard
    /\ spritesPromise' = Pending
    /\ framesPromise' = Pending
    /\ lastOp' = Op("mount", -1, -1)
    /\ UNCHANGED <<panel, call>>
    /\ UNCHANGED <<size, playerColor, pieceSprites, animationFrames, loading,
                   selectedPiece, currentFrame, animationInterval, timers,
                   nextTimer, ticks>>

(* onMount after the await: runs once Promise.all is fulfilled *)
AfterAwait(p, q) ==
    IF PromiseAll(p, q) = "fulfilled"
    THEN /\ pieceSprites' = p.value
         /\ animationFrames' = q.value
         /\ loading' = FALSE
    ELSE UNCHANGED <<pieceSprites, animationFrames, loading>>

SettleSprites ==
    /\ spritesPromise.state = "pending"
    /\ \E imageOk \in BOOLEAN :
          spritesPromise' =
              Settled(imageOk, loadDefaultChessPieces(DEFAULT_CHESS_PIECES_CONFIG))
    /\ AfterAwait(spritesPromise', framesPromise)
    /\ lastOp' = Op("settle", -1, -1)
    /\ UNCHANGED <<panel, call>>
    /\ UNCHANGED <<size, playerColor, phase, boardState, framesPromise,
                   selectedPiece, currentFrame, animationInterval, timers,
                   nextTimer, ticks>>

SettleFrames ==
    /\ framesPromise.state = "pending"
    /\ \E imageOk \in BOOLEAN :
          framesPromise' =
              Settled(imageOk, loadPieceAnimationFrames(DEFAULT_CHESS_PIECES_CONFIG,
                                                        DEFAULT_ANIMATION_COLUMNS))
    /\ AfterAwait(spritesPromise, framesPromise')
    /\ lastOp' = Op("settle", -1, -1)
    /\ UNCHANGED <<panel, call>>
    /\ UNCHANGED <<size, playerColor, phase, boardState, spritesPromise,
                   selectedPiece, currentFrame, animationInterval, timers,
                   nextTimer, ticks>>

(* onDestroy that leaves the animation running *)
Destroy_NoStop ==
    /\ phase = "mounted"
    /\ phase' = "destroyed"
    /\ lastOp' = Op("destroy", -1, -1)
    /\ UNCHANGED <<panel, call>>
    /\ ticks' = -1
    /\ UNCHANGED <<size, playerColor, boardState, pieceSprites, animationFrames,
                   loading, spritesPromise, framesPromise, selectedPiece,
                   currentFrame, animationInterval, timers, nextTimer>>

(* onDestroy *)
Destroy ==
    /\ phase = "mounted"
    /\ phase' = "destroyed"
    /\ SetController(stopAnimation(Controller))
    /\ lastOp' = Op("destroy", -1, -1)
    /\ UNCHANGED <<panel, call>>
    /\ ticks' = -1
    /\ UNCHANGED <<size, playerColor, boardState, pieceSprites, animationFrames,
                   loading, spritesPromise, framesPromise>>

(* getPieceSprite that clamps the frame index instead of wrapping it *)
getPieceSprite_Clamp(r, c, frame, selected) ==
    IF pieceSprites = null \/ BoardAt(r, c) = NoPiece THEN NoFrame
    ELSE LET piece == BoardAt(r, c)
             hasFrames ==
                 /\ selected # NoCell /\ selected.row = r /\ selected.col = c
                 /\ animationFrames # null
                 /\ piece.color \in DOMAIN animationFrames
                 /\ piece.type \in DOMAIN animationFrames[piece.color]
                 /\ Len(animationFrames[piece.color][piece.type]) > 0
         IN  IF hasFrames
             THEN LET frames == animationFrames[piece.color][piece.type]
                  IN  frames[IF frame < Len(frames) THEN frame + 1 ELSE Len(frames)]
             ELSE IF /\ piece.color \in DOMAIN pieceSprites
                     /\ piece.type \in DOMAIN pieceSprites[piece.color]
                  THEN pieceSprites[piece.color][piece.type]
                  ELSE NoFrame

(* getPieceSprite that renders nothing for an empty frame list instead of *)
(* falling through to the static sprite                                   *)
getPieceSprite_NoFallThrough(r, c, frame, selected) ==
    IF pieceSprites = null \/ BoardAt(r, c) = NoPiece THEN NoFrame
    ELSE LET piece == BoardAt(r, c)
             hasFrames ==
                 /\ selected # NoCell /\ selected.row = r /\ selected.col = c
                 /\ animationFrames # null
                 /\ piece.color \in DOMAIN animationFrames
                 /\ piece.type \in DOMAIN animationFrames[piece.color]
         IN  IF hasFrames
             THEN LET frames == animationFrames[piece.color][piece.type]
                  IN  IF Len(frames) > 0 THEN frames[(frame % Len(frames)) + 1]
                      ELSE NoFrame
             ELSE IF /\ piece.color \in DOMAIN pieceSprites
                     /\ piece.type \in DOMAIN pieceSprites[piece.color]
                  THEN pieceSprites[piece.color][piece.type]
                  ELSE NoFrame

(* getPieceSprite(r, c, frame, selected) *)
getPieceSprite(r, c, frame, selected) ==
    IF pieceSprites = null \/ BoardAt(r, c) = NoPiece THEN NoFrame
    ELSE LET piece == BoardAt(r, c)
             hasFrames ==
                 /\ selected # NoCell /\ selected.row = r /\ selected.col = c
                 /\ animationFrames # null
                 /\ piece.color \in DOMAIN animationFrames
                 /\ piece.type \in DOMAIN animationFrames[piece.color]
                 /\ Len(animationFrames[piece.color][piece.type]) > 0
         IN  IF hasFrames
             THEN LET frames == animationFrames[piece.color][piece.type]
                  IN  frames[(frame % Len(frames)) + 1]
             ELSE IF /\ piece.color \in DOMAIN pieceSprites
                     /\ piece.type \in DOMAIN pieceSprites[piece.color]
                  THEN pieceSprites[piece.color][piece.type]
                  ELSE NoFrame

(* $: spritesLoaded = pieceSprites !== null *)
spritesLoaded == pieceSprites # null

(* {@const sprite = spritesLoaded ? getPieceSprite(...) : null} *)
sprite(r, c) ==
    IF spritesLoaded THEN getPieceSprite(r, c, currentFrame, selectedPiece)
    ELSE NoFrame

(* isSelected(r, c) *)
isSelected(r, c) ==
    selectedPiece # NoCell /\ selectedPiece.row = r /\ selectedPiece.col = c

Files == <<"a", "b", "c", "d", "e", "f", "g", "h", "i">>

(* data-coord="{String.fromCharCode(97 + c)}{size - r}" *)
dataCoord(r, c) == <<Files[c + 1], size - r>>

-----------------------------------------------------------------------------
(* SpritePanel.svelte *)

(* A URL string: startsWith('/') holds exactly when dir is not empty *)
Path(dir, file) == [dir |-> dir, file |-> file]

NoPath == Path("", "")

PLACEHOLDER == Path("/images/", "girl-placeholder.svg")

(* f.startsWith('/') ? f : `/images/miki/${f}` *)
resolvePath(f) == IF f.dir # "" THEN f ELSE Path("/images/miki/", f.file)

(* Values of the prop `action`: the default, which the page also passes,  *)
(* and another one                                                        *)
PanelActions == {"idle", "wave"}

(* What res.json() yields: a rejection for an unparsable body, the value  *)
(* null, or an object with an optional `actions` object (the names it     *)
(* holds mapped to their frame lists) and an optional portrait            *)
Json(parse, actions, portrait) ==
    [parse |-> parse, actions |-> actions, portrait |-> portrait]

Unparsable == Json("error", null, NoPath)

JsonNull == Json("null", null, NoPath)

FrameFiles ==
    <<Path("", "idle1.png"), Path("/sprites/", "idle2.png"), Path("", "idle3.png")>>

ManifestBodies ==
    {Unparsable, JsonNull}
    \cup {Json("object", acts, portrait) :
            acts \in {null, [wave |-> SubSeq(FrameFiles, 1, 2)]}
                     \cup {[idle |-> SubSeq(FrameFiles, 1, n)] : n \in 0..3},
            portrait \in {NoPath, Path("", "portrait.png")}}

PanelInit ==
    [action |-> "idle", phase |-> "unmounted", pc |-> "idle",
     frames |-> <<>>, current |-> 0, interval |-> NoTimer, portrait |-> NoPath,
     timers |-> {}, nextTimer |-> 1,
     cause |-> "none", body |-> Unparsable, lastOp |-> "init"]

(* stop() *)
stop(p) ==
    [p EXCEPT !.timers = IF p.interval # NoTimer THEN p.timers \ {p.interval}
                         ELSE p.timers,
              !.interval = NoTimer]

(* start() *)
start(p) ==
    LET p1 == stop(p)
    IN  IF Len(p1.frames) <= 1 THEN p1
        ELSE [p1 EXCEPT !.interval = p1.nextTimer,
                        !.timers = p1.timers \cup {p1.nextTimer},
                        !.nextTimer = p1.nextTimer + 1]

(* the catch block of loadManifest *)
catchLoadError(p) == [p EXCEPT !.frames = <<PLACEHOLDER>>]

(* loadManifest after res.json() resolved with `json`: reading a property *)
(* of null throws into the catch block                                    *)
applyManifest(p, json) ==
    IF json.parse = "null" THEN catchLoadError(p)
    ELSE LET imgs == IF p.action \in DOMAIN json.actions
                     THEN json.actions[p.action] ELSE <<>>
         IN  [p EXCEPT !.frames = [i \in 1..Len(imgs) |-> resolvePath(imgs[i])],
                       !.portrait = IF json.portrait # NoPath
                                    THEN resolvePath(json.portrait) ELSE NoPath]

(* onMount up to `await fetch(manifestUrl)` *)
PanelMount ==
    /\ panel.phase = "unmounted"
    /\ panel' = [panel EXCEPT !.phase = "mounted", !.pc = "fetch", !.lastOp = "mount"]
    /\ UNCHANGED <<boardVars, call>>

(* fetch settles: rejected, or a response that is ok or not; every failure *)
(* runs the catch block, returns from loadManifest and goes on to start()  *)
FetchSettles ==
    /\ panel.pc = "fetch"
    /\ \E outcome \in {"rejected", "not_ok", "ok"} :
          panel' = IF outcome = "ok"
                   THEN [panel EXCEPT !.pc = "json", !.lastOp = "fetch"]
                   ELSE [start(catchLoadError(panel)) EXCEPT
                            !.pc = "done", !.cause = outcome, !.lastOp = "fetch"]
    /\ UNCHANGED <<boardVars, call>>

(* res.json() settles; loadManifest returns and onMount goes on to start() *)
JsonSettles ==
    /\ panel.pc = "json"
    /\ \E json \in ManifestBodies :
          panel' = IF json.parse = "error"
                   THEN [start(catchLoadError(panel)) EXCEPT
                            !.pc = "done", !.cause = "unparsable", !.body = json,
                            !.lastOp = "json"]
                   ELSE [start(applyManifest(panel, json)) EXCEPT
                            !.pc = "done", !.cause = "parsed", !.body = json,
                            !.lastOp = "json"]
    /\ UNCHANGED <<boardVars, call>>

(* the callback of setInterval: current = (current + 1) % frames.length *)
PanelTick ==
    /\ \E t \in panel.timers :
          panel' = [panel EXCEPT !.current = (panel.current + 1) % Len(panel.frames),
                                 !.lastOp = "tick"]
    /\ UNCHANGED <<boardVars, call>>

(* onDestroy(() => stop()) *)
PanelDestroy ==
    /\ panel.phase = "mounted"
    /\ panel' = [stop(panel) EXCEPT !.phase = "destroyed", !.lastOp = "destroy"]
    /\ UNCHANGED <<boardVars, call>>

(* <img src={frames[current]}>: NoPath when there is no such frame *)
panelImage ==
    IF panel.current + 1 \in DOMAIN panel.frames
    THEN panel.frames[panel.current + 1] ELSE NoPath

NoCall == [fn |-> "none"]

-----------------------------------------------------------------------------
(* lib/utils/sprites.ts: sheet splitting and named extraction *)

(* A decoded image: its pixel dimensions *)
Image(width, height) == [width |-> width, height |-> height]

Images == {Image(50, 16), Image(50, 50), Image(160, 16), Image(160, 50)}

(* the nested loop of splitSpriteSheet that splits in column-major order *)
RECURSIVE splitLoop_ColumnMajor(_, _, _, _, _, _)
splitLoop_ColumnMajor(r, c, columns, rows, frameWidth, frameHeight) ==
    IF c >= columns THEN <<>>
    ELSE IF r >= rows
    THEN splitLoop_ColumnMajor(0, c + 1, columns, rows, frameWidth, frameHeight)
    ELSE <<drawImage(c, r, frameWidth, frameHeight)>>
         \o splitLoop_ColumnMajor(r + 1, c, columns, rows, frameWidth, frameHeight)

(* for (r...) for (c...) { drawImage; frames.push(toDataURL) } *)
RECURSIVE splitLoop(_, _, _, _, _, _)
splitLoop(r, c, columns, rows, frameWidth, frameHeight) ==
    IF r >= rows THEN <<>>
    ELSE IF c >= columns
    THEN splitLoop(r + 1, 0, columns, rows, frameWidth, frameHeight)
    ELSE <<drawImage(c, r, frameWidth, frameHeight)>>
         \o splitLoop(r, c + 1, columns, rows, frameWidth, frameHeight)

(* splitSpriteSheet that walks the sheet column by column *)
splitSpriteSheet_ColumnMajor(img, columns, rows) ==
    LET frameWidth == img.width \div columns
        frameHeight == img.height \div rows
    IN  splitLoop_ColumnMajor(0, 0, columns, rows, frameWidth, frameHeight)

splitSpriteSheet(img, columns, rows) ==
    LET frameWidth == img.width \div columns
        frameHeight == img.height \div rows
    IN  splitLoop(0, 0, columns, rows, frameWidth, frameHeight)

(* ChessPieceConfig *)
PieceConfig(name, position) == [name |-> name, position |-> position]

PieceConfigs ==
    {PieceConfig(name, position) :
        name \in {"white-king", "black-pawn"}, position \in {Pos(0, 0), Pos(5, 5)}}

PieceLists == UNION {[1..n -> PieceConfigs] : n \in 0..MaxPieces}

(* results[name] = ... *)
Put(results, name, frame) ==
    [k \in DOMAIN results \cup {name} |-> IF k = name THEN frame ELSE results[k]]

(* extractChessPieces that stores the canvas itself instead of a data URL: *)
(* every name ends up showing what was drawn last                         *)
extractChessPieces_SharedCanvas(pieces, frameWidth, frameHeight) ==
    [name \in {pieces[i].name : i \in DOMAIN pieces} |->
        drawImage(pieces[Len(pieces)].position.column,
                  pieces[Len(pieces)].position.row, frameWidth, frameHeight)]

(* for (const piece of pieces) { ...; results[name] = canv.toDataURL() } *)
RECURSIVE extractLoop(_, _, _, _, _)
extractLoop(pieces, i, results, frameWidth, frameHeight) ==
    IF i > Len(pieces) THEN results
    ELSE extractLoop(pieces, i + 1,
                     Put(results, pieces[i].name,
                         drawImage(pieces[i].position.column, pieces[i].position.row,
                                   frameWidth, frameHeight)),
                     frameWidth, frameHeight)

extractChessPieces(pieces, frameWidth, frameHeight) ==
    extractLoop(pieces, 1, null, frameWidth, frameHeight)

(* Configurations with a missing position: a whole color, or one piece    *)
(* type of a color                                                        *)
WithoutPiece(config, color, type) ==
    [config EXCEPT ![color] = [t \in DOMAIN config[color] \ {type} |-> config[color][t]]]

WithoutColor(config, color) == [c \in DOMAIN config \ {color} |-> config[c]]

PieceConfigurations ==
    {DEFAULT_CHESS_PIECES_CONFIG}
    \cup {WithoutColor(DEFAULT_CHESS_PIECES_CONFIG, c) : c \in ChessColorType}
    \cup {WithoutPiece(DEFAULT_CHESS_PIECES_CONFIG, c, t) :
            c \in ChessColorType, t \in {"king", "pawn"}}

CallSplit ==
    /\ \E img \in Images, columns \in 1..MaxColumns, rows \in 1..MaxRows :
          call' = [fn |-> "splitSpriteSheet", img |-> img, columns |-> columns,
                   rows |-> rows, result |-> splitSpriteSheet(img, columns, rows)]
    /\ UNCHANGED <<boardVars, panel>>

CallExtract ==
    /\ \E pieces \in PieceLists :
          call' = [fn |-> "extractChessPieces", pieces |-> pieces,
                   result |-> extractChessPieces(pieces, CHESS_SPRITE_SIZE,
                                                 CHESS_SPRITE_SIZE)]
    /\ UNCHANGED <<boardVars, panel>>

CallLoad ==
    /\ \E config \in PieceConfigurations :
          call' = [fn |-> "load", config |-> config,
                   sprites |-> loadDefaultChessPieces(config),
                   frames |-> loadPieceAnimationFrames(config,
                                                       DEFAULT_ANIMATION_COLUMNS)]
    /\ UNCHANGED <<boardVars, panel>>

Init ==
    /\ size \in Sizes
    /\ playerColor \in ChessColorType
    /\ phase = "unmounted"
    /\ boardState = null
    /\ pieceSprites = null
    /\ animationFrames = null
    /\ loading = TRUE
    /\ spritesPromise = NotStarted
    /\ framesPromise = NotStarted
    /\ selectedPiece = NoCell
    /\ currentFrame = 0
    /\ animationInterval = NoTimer
    /\ timers = {}
    /\ nextTimer = 1
    /\ lastOp = [op |-> "init", row |-> -1, col |-> -1, from |-> NoCell]
    /\ ticks = -1
    /\ panel = PanelInit
    /\ call = NoCall

Next ==
    \/ Mount
    \/ \E r \in ClickRows, c \in ClickCols : handleSquareClick(r, c)
    \/ Tick
    \/ SettleSprites
    \/ SettleFrames
    \/ Destroy

Spec == Init /\ [][Next]_vars

TypeOK ==
    /\ size \in Sizes
    /\ playerColor \in ChessColorType
    /\ phase \in {"unmounted", "mounted", "destroyed"}
    /\ currentFrame \in 0..MaxFrame
    /\ timers \subseteq 1..(MaxTimers + 1)

-----------------------------------------------------------------------------
(* The board once loaded with the tables the two loaders return for a     *)
(* configuration other than the shipped one (FullChessConfig leaves green *)
(* and blue optional; the animation loader skips any missing color or     *)
(* piece type; a column range with endColumn < startColumn has no frame)  *)

Without(f, keys) == [k \in DOMAIN f \ keys |-> f[k]]

RenderSpriteConfigs ==
    {DEFAULT_CHESS_PIECES_CONFIG,
     Without(DEFAULT_CHESS_PIECES_CONFIG, {"green", "blue"})}

RenderFrameConfigs ==
    {DEFAULT_CHESS_PIECES_CONFIG,
     Without(DEFAULT_CHESS_PIECES_CONFIG, {"white"}),
     [DEFAULT_CHESS_PIECES_CONFIG EXCEPT
        !.white = Without(@, {"pawn"}), !.black = Without(@, {"king"})]}

RenderAnimationColumns ==
    {DEFAULT_ANIMATION_COLUMNS,
     [DEFAULT_ANIMATION_COLUMNS EXCEPT !.white = [startColumn |-> 1, endColumn |-> 0]],
     [DEFAULT_ANIMATION_COLUMNS EXCEPT !.black = [startColumn |-> 6, endColumn |-> 6]]}

InitRender ==
    /\ size \in Sizes
    /\ playerColor \in ChessColorType
    /\ phase = "mounted"
    /\ boardState = getInitialBoard
    /\ \/ /\ \E config \in RenderSpriteConfigs, frameConfig \in RenderFrameConfigs,
                animConfig \in RenderAnimationColumns :
                /\ spritesPromise = Settled(TRUE, loadDefaultChessPieces(config))
                /\ framesPromise =
                      Settled(TRUE, loadPieceAnimationFrames(frameConfig, animConfig))
          /\ loading = FALSE
       \/ /\ spritesPromise = Pending
          /\ framesPromise = Pending
          /\ loading = TRUE
    /\ pieceSprites = spritesPromise.value
    /\ animationFrames = framesPromise.value
    /\ selectedPiece = NoCell
    /\ currentFrame = 0
    /\ animationInterval = NoTimer
    /\ timers = {}
    /\ nextTimer = 1
    /\ lastOp = [op |-> "settle", row |-> -1, col |-> -1, from |-> NoCell]
    /\ ticks = -1
    /\ panel = PanelInit
    /\ call = NoCall

NextRender ==
    \/ \E r \in ClickRows, c \in ClickCols : handleSquareClick(r, c)
    \/ Tick

SpecRender == InitRender /\ [][NextRender]_vars

-----------------------------------------------------------------------------
(* The sprite panel on its own: the board is not mounted *)

BoardInit ==
    /\ size = 8
    /\ playerColor = "white"
    /\ phase = "unmounted"
    /\ boardState = null
    /\ pieceSprites = null
    /\ animationFrames = null
    /\ loading = TRUE
    /\ spritesPromise = NotStarted
    /\ framesPromise = NotStarted
    /\ selectedPiece = NoCell
    /\ currentFrame = 0
    /\ animationInterval = NoTimer
    /\ timers = {}
    /\ nextTimer = 1
    /\ lastOp = [op |-> "init", row |-> -1, col |-> -1, from |-> NoCell]
    /\ ticks = -1

InitPanel ==
    /\ BoardInit
    /\ \E a \in PanelActions : panel = [PanelInit EXCEPT !.action = a]
    /\ call = NoCall

NextPanel ==
    \/ PanelMount
    \/ FetchSettles
    \/ JsonSettles
    \/ PanelTick
    \/ PanelDestroy

SpecPanel == InitPanel /\ [][NextPanel]_vars

-----------------------------------------------------------------------------
(* The sprite utilities called on their own *)

InitSprites ==
    /\ BoardInit
    /\ panel = PanelInit
    /\ call = NoCall

NextSprites ==
    \/ CallSplit
    \/ CallExtract
    \/ CallLoad

SpecSprites == InitSprites /\ [][NextSprites]_vars

-----------------------------------------------------------------------------
(* Properties *)

Selected == selectedPiece # NoCell

Idle == selectedPiece = NoCell

ClickedPiece == BoardAt(lastOp.row, lastOp.col)

(* C1: in every reachable state at most one repeating timer is active, and *)
(* a click that moves the selection from a piece A to a piece B leaves A's *)
(* timer cancelled and only B's new timer active.                          *)
C1_AtMostOneTimer ==
    /\ Cardinality(timers) <= 1
    /\ [][/\ Cardinality(timers') <= 1
          /\ (Selected /\ Selected' /\ selectedPiece' # selectedPiece
                => /\ animationInterval \notin timers'
                   /\ animationInterval' # animationInterval
                   /\ timers' = {animationInterval'})]_vars

C1_Witness ==
    /\ lastOp.op = "click"
    /\ lastOp.from # NoCell
    /\ Selected
    /\ selectedPiece # lastOp.from
    /\ Cardinality(timers) = 1

(* C2: while the same cell stays selected the frame index never decreases; *)
(* it is 0 after every step that selects a cell and after every step that  *)
(* ends in Idle; a step lowers it only when the selection changes.         *)
C2_FrameMonotone ==
    [][/\ (Selected /\ selectedPiece' = selectedPiece => currentFrame' >= currentFrame)
       /\ (Selected' /\ selectedPiece' # selectedPiece => currentFrame' = 0)
       /\ (Idle' => currentFrame' = 0)
       /\ (currentFrame' < currentFrame
             => currentFrame' = 0 /\ selectedPiece' # selectedPiece)]_vars

C2_Witness ==
    /\ Selected
    /\ lastOp.op = "tick"
    /\ currentFrame >= 2

(* C3: a click on the selected cell leaves the controller Idle with frame  *)
(* index 0 and no timer; and while the controller stays Idle no step is a  *)
(* timer tick and the frame index does not change.                         *)
C3_ToggleOffStopsTimer ==
    [][/\ ((lastOp'.op = "click" /\ Selected
             /\ selectedPiece = Cell(lastOp'.row, lastOp'.col))
             => (Idle' /\ currentFrame' = 0 /\ timers' = {}
                 /\ animationInterval' = NoTimer))
       /\ (Idle /\ Idle' /\ phase # "unmounted"
             => /\ currentFrame' = currentFrame
                /\ lastOp'.op # "tick"
                /\ timers' = {})]_vars

C3_Witness ==
    /\ lastOp.op = "click"
    /\ lastOp.from = Cell(lastOp.row, lastOp.col)
    /\ Idle
    /\ timers = {}

(* The piece on the square of the click that the step performs *)
ClickedPieceNext == BoardAt(lastOp'.row, lastOp'.col)

ControllerVars == <<selectedPiece, currentFrame, animationInterval, timers, nextTimer>>

(* C4: a click on a square holding a piece of another color than the       *)
(* player's changes nothing: selection, frame index, timer handle and the  *)
(* set of active timers are what they were, whether Idle or Selected.      *)
C4_OpponentClickNoOp ==
    [][(lastOp'.op = "click" /\ ClickedPieceNext # NoPiece
          /\ ClickedPieceNext.color # playerColor)
         => UNCHANGED ControllerVars]_vars

C4_Witness ==
    /\ lastOp.op = "click"
    /\ ClickedPiece # NoPiece
    /\ ClickedPiece.color # playerColor
    /\ Selected
    /\ currentFrame > 0
    /\ timers = {animationInterval}

(* C5: a click on a square holding no piece leaves the controller Idle     *)
(* with frame index 0 and no active timer; from Idle it changes nothing.   *)
C5_EmptyClickCancels ==
    [][(lastOp'.op = "click" /\ ClickedPieceNext = NoPiece)
         => /\ Idle' /\ currentFrame' = 0
            /\ timers' = {} /\ animationInterval' = NoTimer
            /\ (Idle => UNCHANGED ControllerVars)]_vars

C5_Witness ==
    /\ lastOp.op = "click"
    /\ ClickedPiece = NoPiece
    /\ lastOp.from # NoCell
    /\ Idle
    /\ timers = {}

(* C6: a click, while a cell A is selected, on another cell B holding a    *)
(* piece of the player's color selects B with frame index 0 and exactly    *)
(* one running timer, which is a new one; A's timer is no longer active,   *)
(* a cancelled timer never becomes active again, and the only timer that   *)
(* can tick is the one of the current session.                             *)
C6_SwitchSelection ==
    /\ [](timers \subseteq {animationInterval})
    /\ [][/\ ((lastOp'.op = "click" /\ Selected
                /\ ClickedPieceNext # NoPiece
                /\ ClickedPieceNext.color = playerColor
                /\ selectedPiece # Cell(lastOp'.row, lastOp'.col))
               => /\ selectedPiece' = Cell(lastOp'.row, lastOp'.col)
                  /\ currentFrame' = 0
                  /\ Cardinality(timers') = 1
                  /\ timers' = {animationInterval'}
                  /\ animationInterval' >= nextTimer
                  /\ animationInterval \notin timers')
          /\ \A t \in 1..(nextTimer - 1) : t \notin timers => t \notin timers']_vars

C6_Witness ==
    /\ lastOp.op = "click"
    /\ lastOp.from # NoCell
    /\ lastOp.from # Cell(lastOp.row, lastOp.col)
    /\ selectedPiece = Cell(lastOp.row, lastOp.col)
    /\ currentFrame = 0
    /\ animationInterval >= 2
    /\ (animationInterval - 1) \notin timers
    /\ timers = {animationInterval}

(* The animation frame list the board holds for a piece, empty if none *)
FrameListOf(piece) ==
    IF /\ animationFrames # null
       /\ piece.color \in DOMAIN animationFrames
       /\ piece.type \in DOMAIN animationFrames[piece.color]
    THEN animationFrames[piece.color][piece.type]
    ELSE <<>>

(* The static sprite the board holds for a piece, NoFrame if none *)
StaticSpriteOf(piece) ==
    IF /\ pieceSprites # null
       /\ piece.color \in DOMAIN pieceSprites
       /\ piece.type \in DOMAIN pieceSprites[piece.color]
    THEN pieceSprites[piece.color][piece.type]
    ELSE NoFrame

(* C7: with size 8 and player color white, e2 is the square of row 6,      *)
(* column 4 and holds a white pawn; a click from Idle on a square holding  *)
(* a white piece selects exactly that square, sets the frame index to 0    *)
(* and starts the one timer; and k ticks after the selecting click, with   *)
(* no click in between, the square shows frame k mod length of the         *)
(* 4-frame animation list loaded for its piece.                            *)
C7_SelectAndCycle ==
    /\ [](size = 8 /\ playerColor = "white" /\ phase = "mounted"
            => /\ dataCoord(6, 4) = <<"e", 2>>
               /\ BoardAt(6, 4) = Piece("white", "pawn")
               /\ (Selected /\ ticks >= 0 /\ animationFrames # null
                     => LET frameList == FrameListOf(BoardAt(selectedPiece.row,
                                                             selectedPiece.col))
                        IN  /\ Len(frameList) = 4
                            /\ sprite(selectedPiece.row, selectedPiece.col)
                                 = frameList[(ticks % Len(frameList)) + 1]))
    /\ [][(size = 8 /\ playerColor = "white" /\ lastOp'.op = "click" /\ Idle
             /\ ClickedPieceNext # NoPiece /\ ClickedPieceNext.color = "white")
            => /\ selectedPiece' = Cell(lastOp'.row, lastOp'.col)
               /\ currentFrame' = 0
               /\ animationInterval' # NoTimer
               /\ timers' = {animationInterval'}]_vars

C7_Witness ==
    /\ size = 8 /\ playerColor = "white" /\ phase = "mounted"
    /\ selectedPiece = Cell(6, 4)
    /\ ticks = 3
    /\ animationFrames # null
    /\ sprite(6, 4) = drawImage(4, 6, CHESS_SPRITE_SIZE, CHESS_SPRITE_SIZE)

(* C8: every square renders by the contract: nothing for a square without *)
(* a piece; for the selected square whose piece has a non-empty animation  *)
(* frame list, the frame at index (frame index mod length), which is an    *)
(* element of that list; in every other case (not selected, list missing   *)
(* or empty) the static sprite of the piece if there is one, else nothing. *)
C8_RenderingContract ==
    \A r \in 0..(size - 1), c \in 0..(size - 1) :
        LET piece == BoardAt(r, c)
            frameList == FrameListOf(piece)
        IN  IF piece = NoPiece THEN sprite(r, c) = NoFrame
            ELSE IF selectedPiece = Cell(r, c) /\ Len(frameList) > 0
            THEN /\ currentFrame % Len(frameList) \in 0..(Len(frameList) - 1)
                 /\ sprite(r, c) = frameList[(currentFrame % Len(frameList)) + 1]
                 /\ sprite(r, c) # NoFrame
            ELSE sprite(r, c) = StaticSpriteOf(piece)

C8_Witness ==
    /\ Selected
    /\ currentFrame >= 1
    /\ FrameListOf(BoardAt(selectedPiece.row, selectedPiece.col)) = <<>>
    /\ animationFrames # null
    /\ sprite(selectedPiece.row, selectedPiece.col)
         = StaticSpriteOf(BoardAt(selectedPiece.row, selectedPiece.col))
    /\ sprite(selectedPiece.row, selectedPiece.col) # NoFrame

(* C9: once the component is destroyed no timer is active and no handle is *)
(* kept, whatever the state it was destroyed in, and no later step is a    *)
(* timer tick, also when the sprite load settles after the teardown.       *)
C9_TeardownStopsTimer ==
    /\ [](phase = "destroyed" => timers = {} /\ animationInterval = NoTimer)
    /\ [][phase' = "destroyed" => lastOp'.op # "tick" /\ timers' = {}]_vars

C9_Witness ==
    /\ phase = "destroyed"
    /\ lastOp.op = "settle"
    /\ ~loading
    /\ nextTimer > 1
    /\ timers = {}

(* C10: once the static sprite load or the animation frame load has        *)
(* failed, the loading flag stays set, both tables stay null and no square *)
(* renders a piece, in every later state; a settled load is never started  *)
(* again.                                                                  *)
C10_LoadFailureIsTerminal ==
    /\ [](spritesPromise.state = "rejected" \/ framesPromise.state = "rejected"
            => /\ loading
               /\ pieceSprites = null
               /\ animationFrames = null
               /\ \A r \in 0..(size - 1), c \in 0..(size - 1) : sprite(r, c) = NoFrame)
    /\ [][/\ (spritesPromise.state \in {"fulfilled", "rejected"}
                => spritesPromise' = spritesPromise)
          /\ (framesPromise.state \in {"fulfilled", "rejected"}
                => framesPromise' = framesPromise)]_vars

C10_Witness ==
    /\ spritesPromise.state = "fulfilled"
    /\ framesPromise.state = "rejected"
    /\ lastOp.op = "tick"
    /\ Selected
    /\ loading
    /\ sprite(selectedPiece.row, selectedPiece.col) = NoFrame

(* C15: in every reachable state a repeating timer is active exactly when *)
(* a cell is selected, the frame index is 0 whenever no cell is selected,  *)
(* and every timer tick is taken from a state with a selected cell.        *)
C15_TimerIffSelected ==
    /\ []((timers # {}) <=> Selected)
    /\ [](Idle => currentFrame = 0)
    /\ [][lastOp'.op = "tick" => Selected /\ Selected']_vars

C15_Witness ==
    /\ lastOp.op = "tick"
    /\ Selected
    /\ timers = {animationInterval}
    /\ nextTimer >= 3
    /\ currentFrame = 1

(* C17: the selected cell, if any, lies inside the 8x8 board and holds a   *)
(* piece of the player's color; the player color never changes, and once   *)
(* mounted the placement is the starting position and no step changes it.  *)
C17_SelectionOwnPiece ==
    /\ [](Selected
            => /\ selectedPiece.row \in 0..7
               /\ selectedPiece.col \in 0..7
               /\ BoardAt(selectedPiece.row, selectedPiece.col) # NoPiece
               /\ BoardAt(selectedPiece.row, selectedPiece.col).color = playerColor)
    /\ [](phase # "unmounted" => boardState = getInitialBoard)
    /\ [][/\ playerColor' = playerColor
          /\ (phase # "unmounted" => boardState' = boardState)]_vars

C17_Witness ==
    /\ Selected
    /\ size = 9
    /\ playerColor = "black"
    /\ lastOp.op = "click"
    /\ lastOp.from # NoCell
    /\ BoardAt(selectedPiece.row, selectedPiece.col) = Piece("black", "pawn")

(* The manifest was unreachable or malformed: the fetch was rejected, the  *)
(* response was not OK, the body did not parse, or the parsed JSON has no  *)
(* frame list for the requested action                                     *)
ManifestFailed ==
    /\ panel.pc = "done"
    /\ \/ panel.cause \in {"rejected", "not_ok", "unparsable"}
       \/ panel.cause = "parsed" /\ panel.action \notin DOMAIN panel.body.actions

(* C11: once the load of an unreachable or malformed manifest is over, the *)
(* frame list is exactly the one placeholder frame, and the panel shows    *)
(* it.                                                                     *)
C11_ManifestFailureGivesPlaceholder ==
    ManifestFailed => panel.frames = <<PLACEHOLDER>> /\ panelImage = PLACEHOLDER

(* C16: once the panel is destroyed no repeating timer of the panel is     *)
(* active, in every later state and for every order of the manifest load   *)
(* and the destruction.                                                    *)
C16_PanelTeardownStopsTimer ==
    panel.phase = "destroyed" => panel.timers = {}

(* The (color, piece type) positions a configuration holds *)
PositionsOf(config) ==
    {<<c, t>> \in ChessColorType \X ChessPieceType :
        c \in DOMAIN config /\ t \in DOMAIN config[c]}

(* The (color, piece type) keys a returned table holds *)
KeysOf(table) ==
    {<<c, t>> \in ChessColorType \X ChessPieceType :
        c \in DOMAIN table /\ t \in DOMAIN table[c]}

(* C12: for a configuration with a missing position both loaders return,  *)
(* without an error, a table whose keys are exactly the positions the      *)
(* configuration holds.                                                    *)
C12_MissingPositionNoError ==
    call.fn = "load"
      => /\ call.sprites.ok
         /\ call.frames.ok
         /\ KeysOf(call.sprites.value) = PositionsOf(call.config)
         /\ KeysOf(call.frames.value) = PositionsOf(call.config)

(* C13: splitSpriteSheet returns columns*rows frames, and the frame at     *)
(* index r*columns + c is the crop at column c of row r, of width          *)
(* floor(imageWidth/columns) and height floor(imageHeight/rows).           *)
C13_SplitRowMajor ==
    call.fn = "splitSpriteSheet"
      => LET w == call.img.width \div call.columns
             h == call.img.height \div call.rows
         IN  /\ Len(call.result) = call.columns * call.rows
             /\ \A r \in 0..(call.rows - 1), c \in 0..(call.columns - 1) :
                    call.result[r * call.columns + c + 1]
                      = [sx |-> c * w, sy |-> r * h, sw |-> w, sh |-> h]

C13_Witness ==
    /\ call.fn = "splitSpriteSheet"
    /\ call.columns = 3
    /\ call.rows = 2
    /\ call.img = Image(50, 50)
    /\ call.result[5] = [sx |-> 16, sy |-> 25, sw |-> 16, sh |-> 25]

(* The lists that hold the entries of a list in another order *)
Reorderings(pieces) ==
    {[i \in DOMAIN pieces |-> pieces[f[i]]] : f \in Permutations(DOMAIN pieces)}

(* Entries of the list that share a name share a position *)
NamesDetermined(pieces) ==
    \A i, j \in DOMAIN pieces :
        pieces[i].name = pieces[j].name => pieces[i].position = pieces[j].position

(* C14 as stated: for every list of entries and every reordering of it,    *)
(* extractChessPieces returns the same name -> frame mapping.              *)
C14_OrderIndependent ==
    call.fn = "extractChessPieces"
      => \A q \in Reorderings(call.pieces) :
            extractChessPieces(q, CHESS_SPRITE_SIZE, CHESS_SPRITE_SIZE) = call.result

(* C14, amended: for every list in which entries that share a name share   *)
(* a position, and every reordering of it, extractChessPieces returns the  *)
(* same name -> frame mapping.                                             *)
C14_OrderIndependentDetermined ==
    call.fn = "extractChessPieces" /\ NamesDetermined(call.pieces)
      => \A q \in Reorderings(call.pieces) :
            extractChessPieces(q, CHESS_SPRITE_SIZE, CHESS_SPRITE_SIZE) = call.result

C14_Witness ==
    /\ call.fn = "extractChessPieces"
    /\ Len(call.pieces) = 3
    /\ NamesDetermined(call.pieces)
    /\ call.pieces[1].name = call.pieces[3].name
    /\ call.pieces[1].position # call.pieces[2].position
    /\ DOMAIN call.result = {"white-king", "black-pawn"}

=============================================================================
